---------------------------- MODULE Spec2Model ----------------------------
(***************************************************************************)
(* A model of the lexer of my-c-compiler (src/src/lexer.rs).               *)
(*                                                                         *)
(* A source text is a sequence of Unicode code points (integers).  The     *)
(* lexer keeps three cursors, cur, row and bol.  The code reads the        *)
(* character under the cursor with source.chars().nth(cur), a CHARACTER    *)
(* index, and tests for the end of input with cur >= source.len(), a BYTE  *)
(* length, and slices identifiers and numbers with &source[start..cur],    *)
(* BYTE offsets.  The model keeps the three meanings apart: Utf8Len gives  *)
(* the encoded width of a code point.                                      *)
(*                                                                         *)
(* A panic (unwrap on None, todo!(), a slice off a character boundary)     *)
(* ends the process: the model records it as a result of kind "Panic",     *)
(* after which no operation is enabled.                                    *)
(***************************************************************************)
EXTENDS Integers, Sequences, FiniteSets

VARIABLES
    source,   \* Lexer.source, as a sequence of code points; never changes
    cur,      \* Lexer.cur
    row,      \* Lexer.row
    bol,      \* Lexer.bol
    op,       \* the last operation called: "new", "get_token", "expect_token"
    arg,      \* the candidate token passed to the last expect_token call
    scan,     \* what the last call's get_token produced (or the panic)
    ret,      \* what the last call returned to its caller
    prev,     \* the cursors [cur, row, bol] just before the last call
    calls,    \* the number of calls made so far
    eof_seen  \* a call before the last one produced EOF

vars == <<source, cur, row, bol, op, arg, scan, ret, prev, calls, eof_seen>>

---------------------------------------------------------------------------
(* Bounds of the model.                                                    *)

\* Longest source text drawn from Alphabet.
MaxLen == 3
\* Longest string-literal body drawn from StrAlphabet.
MaxStr == 3
\* Most calls a driver makes on one lexer.
MaxCalls == 4

---------------------------------------------------------------------------
(* Characters.                                                             *)

\* Option::None of get_char: no code point is negative.
None == -1

\* Names of the code points the lexer's code mentions.
Ch == [ nl |-> 10, quote |-> 34, apostrophe |-> 39, backslash |-> 92,
        underscore |-> 95, oparen |-> 40, cparen |-> 41, ocurly |-> 123,
        ccurly |-> 125, semicolon |-> 59, comma |-> 44, equal |-> 61,
        plus |-> 43, minus |-> 45 ]

\* char::is_ascii_digit: '0'..='9'.
is_ascii_digit(c) == c \in 48..57

\* char::is_whitespace: the Unicode White_Space property.
is_whitespace(c) ==
    \/ c \in 9..13
    \/ c \in {32, 133, 160, 5760, 8232, 8233, 8239, 8287, 12288}
    \/ c \in 8192..8202

\* char::is_alphabetic, for the code points below 256 (ASCII and Latin-1):
\* the letters, plus U+AA, U+B5 and U+BA.
is_alphabetic(c) ==
    \/ c \in 65..90
    \/ c \in 97..122
    \/ c \in {170, 181, 186}
    \/ c \in 192..214
    \/ c \in 216..246
    \/ c \in 248..255

\* char::is_numeric, for the code points below 256: the digits, plus the
\* superscripts and vulgar fractions of Latin-1 (category No).
is_numeric(c) == c \in 48..57 \/ c \in {178, 179, 185, 188, 189, 190}

\* char::is_alphanumeric.
is_alphanumeric(c) == is_alphabetic(c) \/ is_numeric(c)

\* char::len_utf8: the number of bytes of the UTF-8 encoding.
Utf8Len(c) == IF c < 128 THEN 1 ELSE IF c < 2048 THEN 2
              ELSE IF c < 65536 THEN 3 ELSE 4

---------------------------------------------------------------------------
(* The source text as bytes.                                               *)

\* Byte offset of the character with index k (0-based); ByteOffset(s, Len(s))
\* is str::len().
RECURSIVE ByteOffset(_, _)
ByteOffset(s, k) == IF k = 0 THEN 0 ELSE ByteOffset(s, k - 1) + Utf8Len(s[k])

\* self.source.len(): the length in bytes.
SourceLen == ByteOffset(source, Len(source))

\* str::is_char_boundary.
is_char_boundary(i) == \E k \in 0..Len(source) : ByteOffset(source, k) = i

\* The character index of the boundary at byte offset i.
CharIndexAt(i) == CHOOSE k \in 0..Len(source) : ByteOffset(source, k) = i

\* &self.source[a..b]: a slice by byte offsets; it panics (ok = FALSE) when
\* a > b or an end is not on a character boundary.
str_slice(a, b) ==
    IF a <= b /\ is_char_boundary(a) /\ is_char_boundary(b)
    THEN [ok |-> TRUE, text |-> SubSeq(source, CharIndexAt(a) + 1, CharIndexAt(b))]
    ELSE [ok |-> FALSE, text |-> <<>>]

---------------------------------------------------------------------------
(* Values the operations return.                                           *)

\* A Token: its variant (tag) and its payload, the text of ID and String
\* or the value of Int.
Tok(tag, text, value) == [kind |-> "Ok", tag |-> tag, text |-> text, value |-> value]

\* A LexerError: its variant and its payload, the character of UnknownToken
\* or the two characters of UnknownEscapeSequence.
Err(tag, text) == [kind |-> "Err", tag |-> tag, text |-> text, value |-> 0]

\* The process aborted: why names the panic.
Panic(why) == [kind |-> "Panic", tag |-> why, text |-> <<>>, value |-> 0]

\* No call made yet.
NoResult == [kind |-> "Init", tag |-> "", text |-> <<>>, value |-> 0]

\* Ok(None) of expect_token.
NoMatch == [kind |-> "None", tag |-> "", text |-> <<>>, value |-> 0]

\* Ok(Some(token)) of expect_token.
SomeTok(t) == [t EXCEPT !.kind = "Some"]

\* A step of a scan: the lexer's cursors after it and what it produced.
Ret(L, res) == [st |-> L, res |-> res]

---------------------------------------------------------------------------
(* The cursor primitives.  L is the lexer during a call: its cursors cur,  *)
(* row and bol, and panic, the panic that has ended the call ("" if none). *)

\* The lexer at the start of a call.
Cursors(c, r, b) == [cur |-> c, row |-> r, bol |-> b, panic |-> ""]

\* A panic at L: the cursors stay as they are.
Abort(L, why) == [L EXCEPT !.panic = why]

\* Lexer::get_char: chars().nth(cur), a character index.
get_char(L) == IF L.cur < Len(source) THEN source[L.cur + 1] ELSE None

\* Lexer::is_empty: cur against the length in bytes.
is_empty(L) == L.cur >= SourceLen

\* chop_char with the line start put one past the cursor (bol = cur + 1
\* after the increment).
chop_char_bol_past(L) ==
    IF L.panic # "" \/ is_empty(L) THEN L
    ELSE IF get_char(L) = None THEN Abort(L, "unwrap on None")
    ELSE LET c == get_char(L)
             next == L.cur + 1
         IN  IF c = Ch.nl
             THEN [L EXCEPT !.cur = next, !.bol = next + 1, !.row = L.row + 1]
             ELSE [L EXCEPT !.cur = next]

\* Lexer::chop_char: advance by one, and start a new line after a newline.
chop_char(L) ==
    IF L.panic # "" \/ is_empty(L) THEN L
    ELSE IF get_char(L) = None THEN Abort(L, "unwrap on None")
    ELSE LET c == get_char(L)
             next == L.cur + 1
         IN  IF c = Ch.nl
             THEN [L EXCEPT !.cur = next, !.bol = next, !.row = L.row + 1]
             ELSE [L EXCEPT !.cur = next]

\* Lexer::trim_left: skip whitespace.
RECURSIVE trim_left(_)
trim_left(L) ==
    IF L.panic # "" \/ is_empty(L) THEN L
    ELSE IF get_char(L) = None THEN Abort(L, "unwrap on None")
    ELSE IF is_whitespace(get_char(L)) THEN trim_left(chop_char(L))
    ELSE L

\* The predicate of lex_id: |c| c.is_alphanumeric() || c == '_'.
IdPart(c) == is_alphanumeric(c) \/ c = Ch.underscore

\* The two predicates consume_while is called with, by name.
Holds(pred, c) == IF pred = "id" THEN IdPart(c) ELSE is_ascii_digit(c)

\* Lexer::consume_while.
RECURSIVE consume_while(_, _)
consume_while(L, pred) ==
    IF L.panic # "" \/ is_empty(L) THEN L
    ELSE IF get_char(L) = None THEN Abort(L, "unwrap on None")
    ELSE IF Holds(pred, get_char(L)) THEN consume_while(chop_char(L), pred)
    ELSE L

---------------------------------------------------------------------------
(* The scanners.  Each returns Ret(L, res): the lexer after the scan and   *)
(* the Token, the LexerError or the Panic it produced.                     *)

\* Lexer::lex_id.
lex_id(L) ==
    LET L1 == consume_while(L, "id")
        text == str_slice(L.cur, L1.cur)
    IN  IF L1.panic # "" THEN Ret(L1, Panic(L1.panic))
        ELSE IF ~text.ok THEN Ret(L1, Panic("slice off a char boundary"))
        ELSE Ret(L1, Tok("ID", text.text, 0))

\* i32::MAX.
I32Max == 2147483647

\* The digit loop of i32's from_str_radix: acc is the value so far (kept
\* negative under a minus sign, as the code does, so that i32::MIN parses).
\* The test before each step is checked_mul/checked_add (checked_sub),
\* written so that the model's own arithmetic stays within 32 bits.
RECURSIVE ParseDigits(_, _, _)
ParseDigits(ds, acc, neg) ==
    IF ds = <<>> THEN [ok |-> TRUE, value |-> acc]
    ELSE IF neg /\ acc < 0 - I32Max THEN [ok |-> FALSE, value |-> 0]
    ELSE LET d == Head(ds) - 48
             m == IF neg THEN 0 - acc ELSE acc
             fits == IF ~neg THEN m <= (I32Max - d) \div 10
                     ELSE IF d = 0 THEN m <= I32Max \div 10
                     ELSE m <= (I32Max - (d - 1)) \div 10
         IN  IF ~fits THEN [ok |-> FALSE, value |-> 0]
             ELSE ParseDigits(Tail(ds), IF neg THEN acc * 10 - d ELSE acc * 10 + d, neg)

\* str::parse::<i32>: an optional sign, then one or more ASCII digits whose
\* value fits 32 bits; anything else is Err.
parse_i32(text) ==
    LET signed == text # <<>> /\ Head(text) \in {Ch.plus, Ch.minus}
        digits == IF signed THEN Tail(text) ELSE text
    IN  IF digits = <<>> \/ (\E i \in 1..Len(digits) : ~is_ascii_digit(digits[i]))
        THEN [ok |-> FALSE, value |-> 0]
        ELSE ParseDigits(digits, 0, signed /\ Head(text) = Ch.minus)

\* Lexer::lex_number.
lex_number(L) ==
    LET L1 == consume_while(L, "digit")
        text == str_slice(L.cur, L1.cur)
        value == parse_i32(text.text)
    IN  IF L1.panic # "" THEN Ret(L1, Panic(L1.panic))
        ELSE IF ~text.ok THEN Ret(L1, Panic("slice off a char boundary"))
        ELSE IF ~value.ok THEN Ret(L1, Panic("unwrap on Err(ParseIntError)"))
        ELSE Ret(L1, Tok("Int", <<>>, value.value))

\* Lexer::lex_char: todo!().
lex_char(L) == Ret(Abort(L, "todo: lex_char"), Panic("todo: lex_char"))

\* The escape table of lex_escape_sequence: the character after `\` and
\* the character it stands for.
EscapeTable ==
    [c \in {97, 98, 101, 102, 118, 63, 110, 114, 116, 39, 34, 92} |->
        CASE c = 97  -> 7       \* a: alert
          [] c = 98  -> 8       \* b: backspace
          [] c = 101 -> 27      \* e: escape
          [] c = 102 -> 12      \* f: form feed
          [] c = 118 -> 11      \* v: vertical tab
          [] c = 63  -> 63      \* ?
          [] c = 110 -> 10      \* n: newline
          [] c = 114 -> 13      \* r: carriage return
          [] c = 116 -> 9       \* t: horizontal tab
          [] c = 39  -> 39      \* '
          [] c = 34  -> 34      \* "
          [] c = 92  -> 92]     \* \

\* lex_escape_sequence whose error carries the character without the
\* backslash (format!("{}", ..) for format!("\\{}", ..)).
lex_escape_sequence_bare(L) ==
    LET c == get_char(L)
    IN  IF c = None THEN Ret(Abort(L, "unwrap on None"), Panic("unwrap on None"))
        ELSE IF c \in DOMAIN EscapeTable THEN Ret(L, Tok("char", <<>>, EscapeTable[c]))
        ELSE Ret(L, Err("UnknownEscapeSequence", <<c>>))

\* Lexer::lex_escape_sequence: decodes the character under the cursor and
\* does not move.  Ok carries the decoded character in value.
lex_escape_sequence(L) ==
    LET c == get_char(L)
    IN  IF c = None THEN Ret(Abort(L, "unwrap on None"), Panic("unwrap on None"))
        ELSE IF c \in DOMAIN EscapeTable THEN Ret(L, Tok("char", <<>>, EscapeTable[c]))
        ELSE Ret(L, Err("UnknownEscapeSequence", <<Ch.backslash, c>>))

\* The while loop of lex_string: L is the lexer at the top of the loop and
\* content is string_content.
RECURSIVE lex_string_loop(_, _)
lex_string_loop(L, content) ==
    IF L.panic # "" THEN Ret(L, Panic(L.panic))
    ELSE IF is_empty(L) THEN Ret(L, Err("UnterminatedStringLiteral", <<>>))
    ELSE IF get_char(L) = None THEN Ret(Abort(L, "unwrap on None"), Panic("unwrap on None"))
    ELSE LET ch == get_char(L)
             L1 == chop_char(L)
             esc == lex_escape_sequence(L1)
         IN  IF ch = Ch.quote THEN Ret(L1, Tok("String", content, 0))
             ELSE IF ch = Ch.backslash
             THEN IF is_empty(L1)
                  THEN Ret(L1, Err("UnterminatedStringLiteral", <<>>))
                  ELSE IF esc.res.kind # "Ok" THEN esc
                  ELSE lex_string_loop(chop_char(L1), Append(content, esc.res.value))
             ELSE lex_string_loop(L1, Append(content, ch))

\* lex_string that, on an error, puts the cursor back on the start of the
\* line for the caller to report it.
lex_string_rewind(L) ==
    LET r == lex_string_loop(chop_char(L), <<>>)
    IN  IF r.res.kind = "Err" THEN Ret([r.st EXCEPT !.cur = r.st.bol], r.res) ELSE r

\* lex_string that, on an unterminated literal, puts the cursor back just
\* after the opening quote.
lex_string_resync(L) ==
    LET r == lex_string_loop(chop_char(L), <<>>)
    IN  IF r.res = Err("UnterminatedStringLiteral", <<>>)
        THEN Ret(chop_char(L), r.res)
        ELSE r

\* Lexer::lex_string: skip the opening quote, then the loop.
lex_string(L) == lex_string_loop(chop_char(L), <<>>)

\* Lexer::lex_operator_or_separator.
lex_operator_or_separator(L) ==
    LET cur_char == get_char(L)
        L1 == chop_char(L)
        next_char == get_char(L1)
    IN  IF cur_char = None THEN Ret(Abort(L, "unwrap on None"), Panic("unwrap on None"))
        ELSE IF cur_char = Ch.oparen THEN Ret(L1, Tok("OParen", <<>>, 0))
        ELSE IF cur_char = Ch.cparen THEN Ret(L1, Tok("CParen", <<>>, 0))
        ELSE IF cur_char = Ch.ocurly THEN Ret(L1, Tok("OCurly", <<>>, 0))
        ELSE IF cur_char = Ch.ccurly THEN Ret(L1, Tok("CCurly", <<>>, 0))
        ELSE IF cur_char = Ch.semicolon THEN Ret(L1, Tok("SemiColon", <<>>, 0))
        ELSE IF cur_char = Ch.comma THEN Ret(L1, Tok("Comma", <<>>, 0))
        ELSE IF cur_char = Ch.equal
        THEN IF is_empty(L1) THEN Ret(L1, Tok("Equal", <<>>, 0))
             ELSE IF next_char = None
             THEN Ret(Abort(L1, "unwrap on None"), Panic("unwrap on None"))
             ELSE IF is_whitespace(next_char) \/ is_alphanumeric(next_char)
             THEN Ret(L1, Tok("Equal", <<>>, 0))
             ELSE IF next_char = Ch.equal THEN Ret(L1, Tok("EqualEqual", <<>>, 0))
             ELSE Ret(L1, Err("UnknownToken", <<next_char>>))
        ELSE Ret(L1, Err("UnknownToken", <<cur_char>>))

\* Lexer::get_token.
get_token(L) ==
    LET L1 == trim_left(L)
        first_char == get_char(L1)
    IN  IF L1.panic # "" THEN Ret(L1, Panic(L1.panic))
        ELSE IF is_empty(L1) THEN Ret(L1, Tok("EOF", <<>>, 0))
        ELSE IF first_char = None
        THEN Ret(Abort(L1, "unwrap on None"), Panic("unwrap on None"))
        ELSE IF is_alphabetic(first_char) \/ first_char = Ch.underscore THEN lex_id(L1)
        ELSE IF is_ascii_digit(first_char) THEN lex_number(L1)
        ELSE IF first_char = Ch.apostrophe THEN lex_char(L1)
        ELSE IF first_char = Ch.quote THEN lex_string(L1)
        ELSE lex_operator_or_separator(L1)

\* Token equality as a derived PartialEq would give it: the variant and
\* the payload.
TokenEqDerived(t, u) == t.tag = u.tag /\ t.text = u.text /\ t.value = u.value

\* impl PartialEq for Token: equal discriminants, whatever the payloads.
TokenEq(t, u) == t.tag = u.tag

\* Lexer::expect_token: what it returns for the scan's result res.
expect_result(res, expected_token) ==
    IF res.kind = "Ok"
    THEN IF TokenEq(res, expected_token) THEN SomeTok(res) ELSE NoMatch
    ELSE res

\* Lexer::get_location: row and col = cur - bol.  The subtraction is on
\* usize: below zero it panics in a build with overflow checks and wraps
\* to 2^64 + (cur - bol) in one without; the model records that as ok = FALSE.
get_location(c, r, b) ==
    IF c - b >= 0 THEN [ok |-> TRUE, row |-> r, col |-> c - b]
    ELSE [ok |-> FALSE, row |-> r, col |-> c - b]

\* impl Display for Location, without the file path: the one-based line
\* and column it prints.
Display(loc) == <<loc.row + 1, loc.col + 1>>

---------------------------------------------------------------------------
(* The source texts the model is run on.                                   *)

\* All sequences over S of length at most n.
BoundedSeq(S, n) == UNION {[1..k -> S] : k \in 0..n}

\* One or two characters of each class the code tells apart: space,
\* newline, NBSP (a two-byte whitespace), a, e-acute (a two-byte letter),
\* 1, ", \, ', =, ( and +.
Alphabet == {32, 10, 160, 97, 233, 49, 34, 92, 39, 61, 40, 43}

\* What follows the opening quote of a string literal: a (a letter and an
\* escape), t (an escape), q (no escape), \, ", e-acute and newline.
StrAlphabet == {97, 116, 113, 92, 34, 233, 10}

\* The text of each operator and separator, from the comments of the
\* Token enum.
OperatorText ==
    [ Plus |-> <<43>>, Minus |-> <<45>>, Multiply |-> <<42>>, Divide |-> <<47>>,
      Mod |-> <<37>>, And |-> <<38>>, Or |-> <<124>>, Xor |-> <<94>>,
      ShiftLeft |-> <<60, 60>>, ShiftRight |-> <<62, 62>>, Equal |-> <<61>>,
      EqualEqual |-> <<61, 61>>, NotEqual |-> <<33, 61>>, Less |-> <<60>>,
      LessEqual |-> <<60, 61>>, Greater |-> <<62>>, GreaterEqual |-> <<62, 61>>,
      AndAnd |-> <<38, 38>>, OrOr |-> <<124, 124>>, PlusPlus |-> <<43, 43>>,
      MinusMinus |-> <<45, 45>>, PlusEqual |-> <<43, 61>>, MinusEqual |-> <<45, 61>>,
      MultiplyEqual |-> <<42, 61>>, DivideEqual |-> <<47, 61>>, ModEqual |-> <<37, 61>>,
      OrEqual |-> <<124, 61>>, XorEqual |-> <<94, 61>>,
      ShiftLeftEqual |-> <<60, 60, 61>>, ShiftRightEqual |-> <<62, 62, 61>>,
      Arrow |-> <<45, 62>>, OParen |-> <<40>>, CParen |-> <<41>>, OCurly |-> <<123>>,
      CCurly |-> <<125>>, Comma |-> <<44>>, SemiColon |-> <<59>> ]

\* The operator and separator kinds.
OperatorKinds == DOMAIN OperatorText

\* The example texts of the specification's testable properties.
Examples ==
    { <<43, 61, 43>>,                                 \* +=+
      <<43, 43, 110>>,                                \* ++n
      <<97, 10, 98>>,                                 \* a NL b
      <<34, 97, 98, 99>>,                             \* "abc
      <<34, 97, 92, 116, 98, 34>>,                    \* "a\tb"
      <<34, 92, 113, 34>>,                            \* "\q"
      <<102, 111, 111, 49, 50, 51, 32, 98, 97, 114>>, \* foo123 bar
      <<52, 50>>,                                     \* 42
      <<48, 48, 55>>,                                 \* 007
      <<50, 49, 52, 55, 52, 56, 51, 54, 52, 55>>,     \* 2147483647
      <<50, 49, 52, 55, 52, 56, 51, 54, 52, 56>>,     \* 2147483648
      <<34, 92, 48, 34>>,                             \* "\0"
      <<34, 92, 120, 52, 49, 34>>,                    \* "\x41"
      <<61, 45>>,                                     \* =-
      <<61, 95>>,                                     \* =_
      <<10, 160, 40>>,                                \* NL NBSP (
      <<64>>,                                         \* @
      <<34, 92, 97, 92, 98, 92, 101, 92, 102, 92, 118, 92, 63, 92, 110,
        92, 114, 92, 116, 92, 39, 92, 34, 92, 92, 34>> }
                                        \* "\a\b\e\f\v\?\n\r\t\'\"\\"

\* A closed literal for each escape of lex_escape_sequence: "\x".
EscapeLiterals ==
    { <<Ch.quote, Ch.backslash, x, Ch.quote>> :
        x \in {97, 98, 101, 102, 118, 63, 110, 114, 116, 39, 34, 92} }

\* Every source text of the model.
Sources ==
    BoundedSeq(Alphabet, MaxLen)
    \cup {<<Ch.quote>> \o b : b \in BoundedSeq(StrAlphabet, MaxStr)}
    \cup {OperatorText[k] : k \in OperatorKinds}
    \cup Examples
    \cup EscapeLiterals

\* The candidates expect_token is called with.
Candidates ==
    { Tok("OParen", <<>>, 0), Tok("CParen", <<>>, 0), Tok("Int", <<>>, 2),
      Tok("ID", <<98>>, 0) }

---------------------------------------------------------------------------
(* The state machine.                                                      *)

\* Lexer::new: the three cursors at 0.
Init ==
    /\ source \in Sources
    /\ cur = 0
    /\ row = 0
    /\ bol = 0
    /\ op = "new"
    /\ arg = NoResult
    /\ scan = NoResult
    /\ ret = NoResult
    /\ prev = [cur |-> 0, row |-> 0, bol |-> 0]
    /\ calls = 0
    /\ eof_seen = FALSE

\* The token is the end-of-input marker.
IsEOF(res) == res.kind = "Ok" /\ res.tag = "EOF"

\* The process is running and the driver has calls left.
CanCall == scan.kind # "Panic" /\ calls < MaxCalls

\* A call of get_token.
GetToken ==
    /\ CanCall
    /\ LET r == get_token(Cursors(cur, row, bol))
       IN  /\ cur' = r.st.cur
           /\ row' = r.st.row
           /\ bol' = r.st.bol
           /\ scan' = r.res
           /\ ret' = r.res
    /\ op' = "get_token"
    /\ arg' = NoResult
    /\ prev' = [cur |-> cur, row |-> row, bol |-> bol]
    /\ calls' = calls + 1
    /\ eof_seen' = (eof_seen \/ IsEOF(scan))
    /\ UNCHANGED source

\* expect_token that puts a token of another kind back: on Ok(None) the
\* cursors are those before the call.
ExpectTokenPutBack(expected_token) ==
    /\ CanCall
    /\ LET r == get_token(Cursors(cur, row, bol))
           out == expect_result(r.res, expected_token)
       IN  /\ cur' = IF out = NoMatch THEN cur ELSE r.st.cur
           /\ row' = IF out = NoMatch THEN row ELSE r.st.row
           /\ bol' = IF out = NoMatch THEN bol ELSE r.st.bol
           /\ scan' = r.res
           /\ ret' = out
    /\ op' = "expect_token"
    /\ arg' = expected_token
    /\ prev' = [cur |-> cur, row |-> row, bol |-> bol]
    /\ calls' = calls + 1
    /\ eof_seen' = (eof_seen \/ IsEOF(scan))
    /\ UNCHANGED source

\* A call of expect_token(expected_token).
ExpectToken(expected_token) ==
    /\ CanCall
    /\ LET r == get_token(Cursors(cur, row, bol))
       IN  /\ cur' = r.st.cur
           /\ row' = r.st.row
           /\ bol' = r.st.bol
           /\ scan' = r.res
           /\ ret' = expect_result(r.res, expected_token)
    /\ op' = "expect_token"
    /\ arg' = expected_token
    /\ prev' = [cur |-> cur, row |-> row, bol |-> bol]
    /\ calls' = calls + 1
    /\ eof_seen' = (eof_seen \/ IsEOF(scan))
    /\ UNCHANGED source

Next ==
    \/ GetToken
    \/ \E e \in Candidates : ExpectToken(e)

Spec == Init /\ [][Next]_vars

---------------------------------------------------------------------------
(* What the claims speak of, read off the source text alone.               *)

\* A call has been made and it was, or wrapped, a scan.
Called == op # "new"

\* The last call was get_token.
GotToken == op = "get_token"

\* The last scan produced this token kind.
Produced(tag) == scan.kind = "Ok" /\ scan.tag = tag

\* The last scan failed with this error.
Failed(tag) == scan.kind = "Err" /\ scan.tag = tag

\* The text has ASCII characters only: bytes and characters coincide.
IsAscii == \A i \in 1..Len(source) : source[i] < 128

\* Every character of the text is whitespace.
AllWhitespace(s) == \A i \in 1..Len(s) : is_whitespace(s[i])

\* The index (0-based) of the first character at or after i that is not
\* whitespace; Len(source) if there is none.
FirstNonWs(i) ==
    CHOOSE j \in i..Len(source) :
        /\ \A k \in (i + 1)..j : is_whitespace(source[k])
        /\ j < Len(source) => ~is_whitespace(source[j + 1])

\* Where the last call started to classify: the first remaining character.
Start == FirstNonWs(prev.cur)

\* The first remaining character of the last call, None if none remained.
FirstChar == IF Start < Len(source) THEN source[Start + 1] ELSE None

\* The character after it, None at the end of the text.
SecondChar == IF Start + 1 < Len(source) THEN source[Start + 2] ELSE None

---------------------------------------------------------------------------
(* C1: end of input is terminal.                                           *)

\* C1: on a source text made of whitespace only (the empty text included)
\* the first get_token call returns EOF; and on any source text, once a
\* scan has produced EOF, every later one produces EOF too.
C1_TerminalEndOfInput ==
    /\ (AllWhitespace(source) /\ GotToken /\ calls = 1) => IsEOF(ret)
    /\ (eof_seen /\ Called) => IsEOF(scan)

---------------------------------------------------------------------------
(* C2: each operator's own text gives that operator, then EOF.             *)

\* C2: on the exact text of an operator or separator kind k, the first
\* get_token call returns the token k and the second returns EOF.
C2_FixedTextRoundTrip ==
    \A k \in OperatorKinds :
        (source = OperatorText[k] /\ GotToken) =>
            /\ calls = 1 => ret = Tok(k, <<>>, 0)
            /\ calls = 2 => IsEOF(ret)

---------------------------------------------------------------------------
(* C3: longest match on = + - * / %.                                       *)

\* The one-character operators with a lookahead, by first character.
SingleOp ==
    [c \in {61, 43, 45, 42, 47, 37} |->
        CASE c = 61 -> "Equal" [] c = 43 -> "Plus" [] c = 45 -> "Minus"
          [] c = 42 -> "Multiply" [] c = 47 -> "Divide" [] c = 37 -> "Mod"]

\* The two-character operators they form, by text.
CompoundOp ==
    [t \in { <<61, 61>>, <<43, 43>>, <<43, 61>>, <<45, 45>>, <<45, 61>>,
             <<42, 61>>, <<47, 61>>, <<37, 61>> } |->
        CASE t = <<61, 61>> -> "EqualEqual" [] t = <<43, 43>> -> "PlusPlus"
          [] t = <<43, 61>> -> "PlusEqual"  [] t = <<45, 45>> -> "MinusMinus"
          [] t = <<45, 61>> -> "MinusEqual" [] t = <<42, 61>> -> "MultiplyEqual"
          [] t = <<47, 61>> -> "DivideEqual" [] t = <<37, 61>> -> "ModEqual"]

\* The case the validation of = turns into an error (claim C16): an = whose
\* lookahead is neither whitespace, alphanumeric nor =.
RejectedAfterEqual ==
    /\ FirstChar = Ch.equal
    /\ SecondChar # None
    /\ ~(is_whitespace(SecondChar) \/ is_alphanumeric(SecondChar))
    /\ SecondChar # Ch.equal

\* C3: when the first remaining character is one of = + - * / %, the call
\* returns the two-character operator and consumes both characters exactly
\* when the two form a compound; otherwise it returns the one-character
\* operator and stops on the lookahead character.  +=+ gives PlusEqual,
\* then Plus; ++n gives PlusPlus, then ID("n").
C3_OperatorLongestMatch ==
    /\ (GotToken /\ FirstChar \in DOMAIN SingleOp /\ ~RejectedAfterEqual) =>
          IF <<FirstChar, SecondChar>> \in DOMAIN CompoundOp
          THEN ret = Tok(CompoundOp[<<FirstChar, SecondChar>>], <<>>, 0)
               /\ cur = Start + 2
          ELSE ret = Tok(SingleOp[FirstChar], <<>>, 0) /\ cur = Start + 1
    /\ (source = <<43, 61, 43>> /\ GotToken) =>
          /\ calls = 1 => ret = Tok("PlusEqual", <<>>, 0)
          /\ calls = 2 => ret = Tok("Plus", <<>>, 0)
    /\ (source = <<43, 43, 110>> /\ GotToken) =>
          /\ calls = 1 => ret = Tok("PlusPlus", <<>>, 0)
          /\ calls = 2 => ret = Tok("ID", <<110>>, 0)

---------------------------------------------------------------------------
(* C4: no call ends the process.                                           *)

\* The first remaining character falls under no rule of get_token: it
\* starts no identifier, number or literal, and no operator or separator.
Unclassified(c) ==
    /\ c # None
    /\ ~(is_alphabetic(c) \/ c = Ch.underscore \/ is_ascii_digit(c))
    /\ c \notin {Ch.apostrophe, Ch.quote}
    /\ \A k \in OperatorKinds : Head(OperatorText[k]) # c

\* C4: every call returns a Token or a LexerError, never a panic; and a
\* first character under no rule gives UnknownToken of that character.
C4_NeverAborts ==
    /\ Called => scan.kind \in {"Ok", "Err"}
    /\ (Called /\ Unclassified(FirstChar)) => scan = Err("UnknownToken", <<FirstChar>>)

---------------------------------------------------------------------------
(* C5: the cursor invariant.                                               *)

\* C5: 0 <= bol <= cur <= length(source), in bytes as is_empty counts and
\* in characters as get_char counts; so get_location does not fail and its
\* column is not negative.
C5_CursorInvariant ==
    /\ 0 <= bol
    /\ bol <= cur
    /\ cur <= SourceLen
    /\ cur <= Len(source)
    /\ get_location(cur, row, bol).ok
    /\ get_location(cur, row, bol).col >= 0

\* C5's case: EOF has been observed after a newline ended the text, so
\* that bol has caught up with cur at the end of the source.
C5_Witness ==
    /\ GotToken /\ IsEOF(ret) /\ eof_seen
    /\ bol = cur /\ cur = SourceLen /\ row > 0

---------------------------------------------------------------------------
(* C6: row and bol follow the newlines consumed.                           *)

\* The number of newline characters among the first c characters.
NewlinesBefore(c) == Cardinality({i \in 1..c : source[i] = Ch.nl})

\* The offset just after the last newline among the first c characters,
\* 0 if there is none.
LineStart(c) ==
    IF NewlinesBefore(c) = 0 THEN 0
    ELSE CHOOSE i \in 1..c :
            source[i] = Ch.nl /\ \A j \in (i + 1)..c : source[j] # Ch.nl

\* The cursors c, r, b track the position c.
Tracks(c, r, b) == r = NewlinesBefore(c) /\ b = LineStart(c)

\* The lexer once the next call has skipped the whitespace under the cursor.
AfterTrim == trim_left(Cursors(cur, row, bol))

\* The number of newline characters among the first c bytes.
NewlinesBeforeByte(c) ==
    Cardinality({i \in 1..Len(source) :
                    source[i] = Ch.nl /\ ByteOffset(source, i - 1) < c})

\* The byte offset just after the last newline among the first c bytes,
\* 0 if there is none.
LineStartByte(c) ==
    IF NewlinesBeforeByte(c) = 0 THEN 0
    ELSE LET last == CHOOSE i \in 1..Len(source) :
                        /\ source[i] = Ch.nl /\ ByteOffset(source, i - 1) < c
                        /\ \A j \in (i + 1)..Len(source) :
                              ~(source[j] = Ch.nl /\ ByteOffset(source, j - 1) < c)
         IN  ByteOffset(source, last)

\* C6: whenever a call has returned, row is the number of newlines in
\* source[0..cur) and bol the offset just after the last of them, cur and
\* bol being byte offsets into the source; and once the next call has
\* skipped its whitespace on a NL b, with the cursor on b, the location is
\* row 1, column 0, displayed as line 2, column 1.
C6_PositionTracking ==
    /\ scan.kind # "Panic" =>
          /\ row = NewlinesBeforeByte(cur)
          /\ bol = LineStartByte(cur)
    /\ (source = <<97, 10, 98>> /\ AfterTrim.cur = 2) =>
          LET loc == get_location(AfterTrim.cur, AfterTrim.row, AfterTrim.bol)
          IN  loc = [ok |-> TRUE, row |-> 1, col |-> 0] /\ Display(loc) = <<2, 1>>

\* C6 on ASCII text.
C6_OnAscii == IsAscii => C6_PositionTracking

\* C6 with cur and bol read as character indices, the unit chop_char moves
\* them in: row and bol follow the newlines among the characters consumed,
\* between calls and when the next call has skipped its whitespace.
C6_InCharacters ==
    /\ Tracks(cur, row, bol)
    /\ Tracks(AfterTrim.cur, AfterTrim.row, AfterTrim.bol)

\* C6's example: a NL b after ID("a") was returned; the next call's
\* whitespace skip consumes the newline and stops on b.
C6_Witness ==
    /\ source = <<97, 10, 98>> /\ calls = 1 /\ Produced("ID")
    /\ AfterTrim.cur = 2 /\ AfterTrim.row = 1 /\ AfterTrim.bol = 2

---------------------------------------------------------------------------
(* C7: the cursors never move back.                                        *)

\* C7: across every call, whatever it returns, none of cur, row and bol
\* decreases.
C7_MonotoneCursors == prev.cur <= cur /\ prev.row <= row /\ prev.bol <= bol

\* C7's case: a call that returned an error and moved all three cursors.
C7_Witness ==
    /\ Called /\ scan.kind = "Err"
    /\ prev.cur < cur /\ prev.row < row /\ prev.bol < bol

---------------------------------------------------------------------------
(* C8, C9, C10: string literals.                                           *)

\* The escape table of the specification (section 4.1, step 5).
SpecEscape ==
    [c \in {97, 98, 101, 102, 118, 63, 110, 114, 116, 39, 34, 92} |->
        CASE c = 97 -> 7 [] c = 98 -> 8 [] c = 101 -> 27 [] c = 102 -> 12
          [] c = 118 -> 11 [] c = 63 -> 63 [] c = 110 -> 10 [] c = 114 -> 13
          [] c = 116 -> 9 [] c = 39 -> 39 [] c = 34 -> 34 [] c = 92 -> 92]

\* How the literal whose body starts at character i reads: "closed" by an
\* unescaped quote at index at, with the decoded text; "unterminated", the
\* text ending first; or "badescape", a backslash at index at - 1 followed
\* by a character outside the table, text being the two characters.
RECURSIVE RefString(_, _)
RefString(i, acc) ==
    IF i >= Len(source) THEN [end |-> "unterminated", at |-> i, text |-> acc]
    ELSE IF source[i + 1] = Ch.quote THEN [end |-> "closed", at |-> i, text |-> acc]
    ELSE IF source[i + 1] # Ch.backslash THEN RefString(i + 1, Append(acc, source[i + 1]))
    ELSE IF i + 1 >= Len(source) THEN [end |-> "unterminated", at |-> i + 1, text |-> acc]
    ELSE IF source[i + 2] \in DOMAIN SpecEscape
    THEN RefString(i + 2, Append(acc, SpecEscape[source[i + 2]]))
    ELSE [end |-> "badescape", at |-> i + 1, text |-> <<Ch.backslash, source[i + 2]>>]

\* The last call's first remaining character opens a string literal.
OpensString == Called /\ FirstChar = Ch.quote

\* How that literal reads.
Literal == RefString(Start + 1, <<>>)

\* C8: a literal the text ends in (also right after a backslash) gives
\* UnterminatedStringLiteral, never a String; "abc does.
C8_UnterminatedString ==
    /\ (OpensString /\ Literal.end = "unterminated") =>
          scan = Err("UnterminatedStringLiteral", <<>>)
    /\ (source = <<34, 97, 98, 99>> /\ Called /\ calls = 1) =>
          scan = Err("UnterminatedStringLiteral", <<>>)

\* C9: a closed literal gives String of the characters between the quotes,
\* each escape pair replaced by the character the table gives (all twelve
\* of them); an escaped quote does not close it; cur ends as the byte
\* offset just after the closing quote.  "a\tb" gives a, TAB, b.
C9_EscapeDecoding ==
    /\ (OpensString /\ Literal.end = "closed") =>
          /\ scan = Tok("String", Literal.text, 0)
          /\ cur = ByteOffset(source, Literal.at + 1)
    /\ \A x \in DOMAIN SpecEscape :
          (source = <<Ch.quote, Ch.backslash, x, Ch.quote>> /\ calls = 1) =>
              scan = Tok("String", <<SpecEscape[x]>>, 0) /\ cur = 4
    /\ (source = <<34, 97, 92, 116, 98, 34>> /\ Called /\ calls = 1) =>
          scan = Tok("String", <<97, 9, 98>>, 0)

\* C9 on ASCII text.
C9_OnAscii == IsAscii => C9_EscapeDecoding

\* C9's decoding alone, on every text: the value returned for a closed
\* literal, with the cursor just after the closing quote as a character
\* index.
C9_InCharacters ==
    (OpensString /\ Literal.end = "closed") =>
        scan = Tok("String", Literal.text, 0) /\ cur = Literal.at + 1

\* C9's example: "a\tb" decoded, the cursor after the closing quote.
C9_Witness ==
    /\ source = <<34, 97, 92, 116, 98, 34>> /\ calls = 1
    /\ scan = Tok("String", <<97, 9, 98>>, 0) /\ cur = 6

\* C9's other case: an escaped quote inside a closed literal.
C9_WitnessEscapedQuote ==
    /\ source = <<34, 92, 34, 34>> /\ calls = 1
    /\ scan = Tok("String", <<34>>, 0) /\ cur = 4

\* C9's table: the literal of all twelve escapes, decoded.
C9_WitnessAllEscapes ==
    /\ Len(source) = 26 /\ calls = 1 /\ cur = 26
    /\ scan = Tok("String", <<7, 8, 27, 12, 11, 63, 10, 13, 9, 39, 34, 92>>, 0)

\* C10: a backslash followed by a character x outside the table gives
\* UnknownEscapeSequence carrying the two characters \ and x, and no
\* String; "\q" fails carrying \q, and so do the numeric escapes.
C10_UnknownEscape ==
    /\ (OpensString /\ Literal.end = "badescape") =>
          scan = Err("UnknownEscapeSequence", Literal.text)
    /\ (source = <<34, 92, 113, 34>> /\ Called /\ calls = 1) =>
          scan = Err("UnknownEscapeSequence", <<92, 113>>)

\* C10's case: "\x41", a numeric escape, refused at \x.
C10_Witness ==
    /\ source = <<34, 92, 120, 52, 49, 34>> /\ calls = 1
    /\ scan = Err("UnknownEscapeSequence", <<92, 120>>) /\ cur = 2

---------------------------------------------------------------------------
(* C11, C12: expect_token.                                                 *)

\* The last call was expect_token.
Expected == op = "expect_token"

\* C11: expect_token(candidate) returns Some(token) exactly when the token
\* scanned has the candidate's kind, whatever the payloads, None when the
\* kinds differ, and the scan's error unchanged when the scan fails.  On (
\* the candidate OParen gives Some(OParen) and CParen gives None.
C11_KindOnlyMatching ==
    Expected =>
        /\ (scan.kind = "Ok" /\ scan.tag = arg.tag) => ret = SomeTok(scan)
        /\ (scan.kind = "Ok" /\ scan.tag # arg.tag) => ret = NoMatch
        /\ scan.kind = "Err" => ret = scan
        /\ (source = <<40>> /\ calls = 1 /\ arg.tag = "OParen") =>
              ret = SomeTok(Tok("OParen", <<>>, 0))
        /\ (source = <<40>> /\ calls = 1 /\ arg.tag = "CParen") => ret = NoMatch

\* C11's case: the text 1 against the candidate Int(2): Some(Int(1)), the
\* payloads differing.
C11_Witness ==
    /\ Expected /\ arg = Tok("Int", <<>>, 2)
    /\ ret = SomeTok(Tok("Int", <<>>, 1))

\* C12: after expect_token the cursors are those get_token leaves from the
\* same start, whether it returned Some, None or an error; a token of
\* another kind is not put back: the cursor is past it.
C12_ExpectConsumes ==
    Expected =>
        LET r == get_token(Cursors(prev.cur, prev.row, prev.bol))
        IN  /\ cur = r.st.cur /\ row = r.st.row /\ bol = r.st.bol
            /\ scan = r.res
            /\ (ret = NoMatch /\ ~IsEOF(scan)) => cur > Start

\* C12's case: ( against the candidate CParen: None, and the ( is consumed.
C12_Witness ==
    /\ Expected /\ source = <<40>> /\ calls = 1
    /\ arg.tag = "CParen" /\ ret = NoMatch /\ cur = 1

---------------------------------------------------------------------------
(* C13: identifiers.                                                       *)

\* The end of the maximal run of letters, digits and underscores that
\* starts at character i: the index of the first character after it.
IdRunEnd(i) ==
    CHOOSE j \in i..Len(source) :
        /\ \A k \in (i + 1)..j : is_alphanumeric(source[k]) \/ source[k] = Ch.underscore
        /\ j < Len(source) =>
              ~(is_alphanumeric(source[j + 1]) \/ source[j + 1] = Ch.underscore)

\* The last call's first remaining character starts an identifier.
OpensId == Called /\ FirstChar # None
           /\ (is_alphabetic(FirstChar) \/ FirstChar = Ch.underscore)

\* C13: when the first remaining character is a letter or an underscore,
\* the call returns ID of exactly the maximal run of letters, digits and
\* underscores from there and stops on the first character after the run;
\* foo123 bar gives ID("foo123"), ID("bar"), EOF.
C13_IdentifierMaximalMunch ==
    /\ OpensId =>
          /\ scan = Tok("ID", SubSeq(source, Start + 1, IdRunEnd(Start)), 0)
          /\ cur = IdRunEnd(Start)
    /\ (source = <<102, 111, 111, 49, 50, 51, 32, 98, 97, 114>> /\ Called) =>
          /\ calls = 1 => scan = Tok("ID", <<102, 111, 111, 49, 50, 51>>, 0)
          /\ calls = 2 => scan = Tok("ID", <<98, 97, 114>>, 0)
          /\ calls = 3 => IsEOF(scan)

\* C13 on ASCII text.
C13_OnAscii == IsAscii => C13_IdentifierMaximalMunch

---------------------------------------------------------------------------
(* C14, C15: integer literals.                                             *)

\* The end of the maximal run of ASCII digits that starts at character i.
DigitRunEnd(i) ==
    CHOOSE j \in i..Len(source) :
        /\ \A k \in (i + 1)..j : is_ascii_digit(source[k])
        /\ j < Len(source) => ~is_ascii_digit(source[j + 1])

\* The base-10 value of a digit sequence, None when it exceeds 2147483647.
RECURSIVE DecimalValue(_, _)
DecimalValue(ds, acc) ==
    IF ds = <<>> THEN acc
    ELSE LET d == Head(ds) - 48
         IN  IF acc > (I32Max - d) \div 10 THEN None
             ELSE DecimalValue(Tail(ds), acc * 10 + d)

\* The last call's first remaining character starts a number.
OpensNumber == Called /\ FirstChar # None /\ is_ascii_digit(FirstChar)

\* The value of the digit run the last call started on.
RunValue == DecimalValue(SubSeq(source, Start + 1, DigitRunEnd(Start)), 0)

\* C14: when the maximal run of ASCII digits at the cursor denotes a value
\* greater than 2147483647, get_token returns the error value
\* NumericLiteralOverflow, and never an Int.
C14_NumericOverflowIsError ==
    (OpensNumber /\ RunValue = None) =>
        /\ scan.kind = "Err"
        /\ scan.tag = "NumericLiteralOverflow"

\* C15: when the first remaining character is an ASCII digit and the value
\* of the maximal digit run fits 32 bits, get_token returns Int of its
\* base-10 value (leading zeros ignored) and stops on the first character
\* after the run; 42 gives Int(42) and 007 gives Int(7).
C15_IntegerParsing ==
    /\ (OpensNumber /\ RunValue # None) =>
          /\ scan = Tok("Int", <<>>, RunValue)
          /\ cur = DigitRunEnd(Start)
    /\ (source = <<52, 50>> /\ calls = 1) => scan = Tok("Int", <<>>, 42)
    /\ (source = <<48, 48, 55>> /\ calls = 1) => scan = Tok("Int", <<>>, 7)

\* C15 on ASCII text.
C15_OnAscii == IsAscii => C15_IntegerParsing

---------------------------------------------------------------------------
(* C16: validation of =.                                                   *)

\* The last call's first remaining character is =.
OpensEqual == Called /\ FirstChar = Ch.equal

\* C16: after consuming =, get_token returns Equal when the input has ended
\* or the next character is whitespace or alphanumeric, EqualEqual when the
\* next character is =, and the error UnknownToken for any other next
\* character (an underscore included).
C16_EqualValidation ==
    OpensEqual =>
        /\ SecondChar = None => scan = Tok("Equal", <<>>, 0)
        /\ (SecondChar # None
              /\ (is_whitespace(SecondChar) \/ is_alphanumeric(SecondChar))) =>
              scan = Tok("Equal", <<>>, 0)
        /\ SecondChar = Ch.equal => scan = Tok("EqualEqual", <<>>, 0)
        /\ RejectedAfterEqual => Failed("UnknownToken")
        /\ SecondChar \in {Ch.oparen, Ch.minus, Ch.quote, Ch.underscore} =>
              scan = Err("UnknownToken", <<SecondChar>>)

\* C16 on ASCII text.
C16_OnAscii == IsAscii => C16_EqualValidation

---------------------------------------------------------------------------
(* C17: progress and termination of the pull loop.                         *)

\* The driver has observed EOF, in the last call or in an earlier one.
ObservedEOF == eof_seen \/ IsEOF(scan)

\* The last call returned to its caller, with a token or with an error.
Returned == scan.kind \in {"Ok", "Err"}

\* C17: every call made while a non-whitespace character remains returns
\* (a token or an error) with cur strictly increased, so a driver that
\* keeps calling has observed EOF once it has made length(source) + 1
\* calls.
C17_ProgressAndTermination ==
    Called =>
        /\ Returned
        /\ FirstChar # None => cur > prev.cur
        /\ calls >= Len(source) + 1 => ObservedEOF

\* C17 for the calls that return: they make progress, and EOF is observed
\* within length(source) + 1 calls when all of them return.
C17_WhenReturned ==
    (Called /\ Returned) =>
        /\ FirstChar # None => cur > prev.cur
        /\ calls >= Len(source) + 1 => ObservedEOF

---------------------------------------------------------------------------
(* C18: the cursor as a character position.                                *)

\* The lexer as the last call left it.
Here == Cursors(cur, row, bol)

\* C18: after every call that returned, on every source text (multi-byte
\* characters included), whenever is_empty() is false cur is the byte
\* offset of a character and get_char() returns that character, never
\* None; and the text of an ID is exactly the characters the call consumed.
C18_CursorIsCharPosition ==
    scan.kind # "Panic" =>
        /\ ~is_empty(Here) =>
              /\ get_char(Here) # None
              /\ is_char_boundary(cur)
              /\ get_char(Here) = source[CharIndexAt(cur) + 1]
        /\ Produced("ID") => scan.text = SubSeq(source, Start + 1, cur)

\* C18 on ASCII text.
C18_OnAscii == IsAscii => C18_CursorIsCharPosition

---------------------------------------------------------------------------
(* C19, C20: the state a string error leaves.                              *)

\* C19: when a call returns UnterminatedStringLiteral the whole remaining
\* input has been consumed, cur = length(source), and a call made with
\* nothing left returns EOF and leaves the cursors where they are, so every
\* later call returns EOF.
C19_AfterUnterminatedString ==
    /\ Failed("UnterminatedStringLiteral") =>
          /\ cur = Len(source)
          /\ cur = SourceLen
          /\ get_token(Here) = Ret(Here, Tok("EOF", <<>>, 0))
    /\ (Called /\ prev.cur >= SourceLen) =>
          /\ IsEOF(scan)
          /\ cur = prev.cur /\ row = prev.row /\ bol = prev.bol

\* C19's case: "abc has just given the error, at the end of the text.
C19_Witness ==
    /\ source = <<34, 97, 98, 99>> /\ calls = 1
    /\ Failed("UnterminatedStringLiteral") /\ cur = 4

\* C19's case, later: two calls after the error, both EOF.
C19_WitnessThenEOF ==
    /\ source = <<34, 97, 98, 99>> /\ calls = 3
    /\ IsEOF(scan) /\ eof_seen /\ cur = 4

\* C20: when a call returns UnknownEscapeSequence for \x, the opening
\* quote, the content before and the backslash have been consumed and x has
\* not: cur is the byte offset of x, and x is the character the next call
\* reads first; "\q" gives the error, then ID("q"), then
\* UnterminatedStringLiteral, then EOF.
C20_AfterUnknownEscape ==
    /\ Failed("UnknownEscapeSequence") =>
          /\ OpensString /\ Literal.end = "badescape"
          /\ cur = ByteOffset(source, Literal.at)
          /\ get_char(Here) = scan.text[2]
    /\ (source = <<34, 92, 113, 34>> /\ Called) =>
          /\ calls = 1 => scan = Err("UnknownEscapeSequence", <<92, 113>>) /\ cur = 2
          /\ calls = 2 => scan = Tok("ID", <<113>>, 0) /\ cur = 3
          /\ calls = 3 => scan = Err("UnterminatedStringLiteral", <<>>) /\ cur = 4
          /\ calls = 4 => IsEOF(scan) /\ cur = 4

\* C20 on ASCII text.
C20_OnAscii == IsAscii => C20_AfterUnknownEscape

\* C20 with cur read as a character index, on every text: the cursor is on
\* x, just after the backslash.
C20_InCharacters ==
    Failed("UnknownEscapeSequence") =>
        /\ OpensString /\ Literal.end = "badescape"
        /\ cur = Literal.at
        /\ cur > Start + 1 /\ cur < Len(source)
        /\ source[cur] = Ch.backslash
        /\ source[cur + 1] = scan.text[2]

\* C20's case: "a\q has given the error with the cursor on q, after the
\* quote, the content a and the backslash.
C20_Witness ==
    /\ source = <<34, 97, 92, 113>> /\ calls = 1
    /\ Failed("UnknownEscapeSequence") /\ cur = 3 /\ source[cur + 1] = 113

\* C20's example at its end: "\q" after four calls.
C20_WitnessExample ==
    /\ source = <<34, 92, 113, 34>> /\ calls = 4
    /\ IsEOF(scan) /\ ~eof_seen /\ cur = 4

===========================================================================
